---- MODULE Spec2Model ----
(***************************************************************************)
(* Model of the anonymiser's policy compiler (parsers/strategies.rs),      *)
(* schema cross-validator (parsers/strategies.rs) and position state       *)
(* machine with its type registry (parsers/state.rs).                      *)
(*                                                                         *)
(* Table and column names are modelled by natural numbers: the number is   *)
(* the rank of the name in String order, so that the derived ordering of   *)
(* SimpleColumn can be computed.                                           *)
(***************************************************************************)
EXTENDS Integers, Sequences, FiniteSets, TLC

VARIABLES
    strategies_in_file,      \* argument of from_strategies_in_file: the entries
                             \* and columns its loops have taken so far
    transformer_overrides,   \* argument of from_strategies_in_file
    columns,                 \* local of from_strategies_in_file (line 42)
    transformed_strategies,  \* local of from_strategies_in_file (line 38)
    errors,                  \* local of from_strategies_in_file (line 39)
    result,                  \* what from_strategies_in_file returned
    pc,                      \* where from_strategies_in_file is
    tables,                  \* Strategies.tables, receiver of validate_against_db
    columns_from_db,         \* argument of validate_against_db
    db_result,               \* what validate_against_db returned
    position,                \* State.position
    types,                   \* State.types
    new_position,            \* argument of the last update_position call
    previous_kind,           \* variant of State.position before that call
    override_input,          \* data_category and transformer handed to
                             \* apply_transformer_overrides
    override_results         \* what its successive applications returned

vars == <<strategies_in_file, transformer_overrides, columns,
          transformed_strategies, errors, result, pc, tables, columns_from_db, db_result,
          position, types, new_position, previous_kind,
          override_input, override_results>>

compileVars == <<strategies_in_file, transformer_overrides, columns,
                 transformed_strategies, errors, result, pc>>
validateVars == <<tables, columns_from_db, db_result>>
stateVars == <<position, types, new_position, previous_kind>>
overrideVars == <<override_input, override_results>>

(***************************************************************************)
(* Bounds and input sets                                                   *)
(***************************************************************************)
MaxTables == 2      \* table entries in a strategy document
MaxColumns == 2     \* column entries in a strategy document, over all tables
MaxTypes == 2       \* columns accumulated by one table declaration
MaxApplications == 2  \* successive applications of apply_transformer_overrides

TableNames == {1, 2}
ColumnNames == {1, 2}
DeclaredTypes == {"bigint", "date"}

None == [some |-> FALSE]
Some(v) == [some |-> TRUE, value |-> v]

(***************************************************************************)
(* strategy_structs: the data the compiler works on                        *)
(***************************************************************************)
DataCategory ==
    {"General", "PotentialPii", "Pii", "CommerciallySensitive", "Unknown"}

TransformerType == {"Identity", "Scramble", "ScrambleBlank", "Error"}

Transformer == [name : TransformerType, args : {"None", "Some"}]

\* The transformers a strategy document declares in this model: one of each
\* kind the compiler tells apart, Scramble carrying arguments.
DeclaredTransformers ==
    { [name |-> "Identity", args |-> "None"],
      [name |-> "Scramble", args |-> "Some"],
      [name |-> "ScrambleBlank", args |-> "None"],
      [name |-> "Error", args |-> "None"] }

ColumnInFile ==
    [name : ColumnNames, data_category : DataCategory,
     transformer : DeclaredTransformers]

TransformerOverrides ==
    [allow_potential_pii : BOOLEAN, allow_commercially_sensitive : BOOLEAN,
     scramble_blank : BOOLEAN]

create_simple_column(column_name, table_name) ==
    [table_name |-> table_name, column_name |-> column_name]

\* HashMap::insert: the map afterwards, and the value the key held before.
MapInsert(m, k, v) ==
    [x \in (DOMAIN m) \cup {k} |-> IF x = k THEN v ELSE m[x]]

MapGet(m, k) == IF k \in DOMAIN m THEN Some(m[k]) ELSE None

EmptyMap == [x \in {} |-> 0]

(***************************************************************************)
(* strategies.rs: override resolution                                      *)
(***************************************************************************)
\* the blanket scramble override tried before the category overrides
apply_overrides_scramble_first(data_category, overrides, transformer) ==
    IF overrides.scramble_blank /\ transformer.name = "Scramble"
    THEN [name |-> "ScrambleBlank", args |-> "None"]
    ELSE IF data_category = "PotentialPii" /\ overrides.allow_potential_pii
    THEN [name |-> "Identity", args |-> "None"]
    ELSE IF data_category = "CommerciallySensitive"
            /\ overrides.allow_commercially_sensitive
    THEN [name |-> "Identity", args |-> "None"]
    ELSE transformer

apply_transformer_overrides(data_category, overrides, transformer) ==
    IF data_category = "PotentialPii" /\ overrides.allow_potential_pii
    THEN [name |-> "Identity", args |-> "None"]
    ELSE IF data_category = "CommerciallySensitive"
            /\ overrides.allow_commercially_sensitive
    THEN [name |-> "Identity", args |-> "None"]
    ELSE IF overrides.scramble_blank /\ transformer.name = "Scramble"
    THEN [name |-> "ScrambleBlank", args |-> "None"]
    ELSE transformer

transformer(column, overrides) ==
    apply_transformer_overrides(column.data_category, overrides,
                                column.transformer)

(***************************************************************************)
(* strategies.rs: Strategies::from_strategies_in_file                      *)
(***************************************************************************)
ValidationErrors_new ==
    [unanonymised_pii |-> <<>>, unknown_data_categories |-> <<>>,
     error_transformer_types |-> <<>>, duplicate_columns |-> <<>>,
     duplicate_tables |-> <<>>]

ValidationErrors_is_empty(e) ==
    /\ e.unanonymised_pii = <<>>
    /\ e.unknown_data_categories = <<>>
    /\ e.error_transformer_types = <<>>
    /\ e.duplicate_columns = <<>>
    /\ e.duplicate_tables = <<>>

\* the test leaving Pii out
IsUnanonymisedPii_potential_only(column) ==
    /\ column.data_category = "PotentialPii"
    /\ column.transformer.name = "Identity"

\* the test leaving PotentialPii out
IsUnanonymisedPii_pii_only(column) ==
    /\ column.data_category = "Pii"
    /\ column.transformer.name = "Identity"

\* lines 44-51: the unanonymised-PII test of one column entry
IsUnanonymisedPii(column) ==
    /\ column.data_category \in {"PotentialPii", "Pii"}
    /\ column.transformer.name = "Identity"

\* lines 52-56
IsUnknownCategory(column) == column.data_category = "Unknown"

\* the test chained as an else-branch of the Unknown test
IsErrorTransformer_else_branch(column) ==
    /\ column.data_category # "Unknown"
    /\ column.transformer.name = "Error"

\* lines 57-61
IsErrorTransformer(column) == column.transformer.name = "Error"

PushIf(cond, list, item) == IF cond THEN Append(list, item) ELSE list

\* an iteration that gives up on a column once an error has been recorded
ProcessColumn_fail_fast(table_name, column, overrides, st) ==
    IF ~ValidationErrors_is_empty(st.errors) THEN st
    ELSE LET sc == create_simple_column(column.name, table_name)
             e1 == [st.errors EXCEPT
                       !.unanonymised_pii =
                           PushIf(IsUnanonymisedPii(column), @, sc),
                       !.unknown_data_categories =
                           PushIf(IsUnknownCategory(column), @, sc),
                       !.error_transformer_types =
                           PushIf(IsErrorTransformer(column), @, sc),
                       !.duplicate_columns =
                           PushIf(column.name \in DOMAIN st.columns, @, sc)]
             info == [data_category |-> column.data_category,
                      name |-> column.name,
                      transformer |-> transformer(column, overrides)]
         IN  [columns |-> MapInsert(st.columns, column.name, info),
              errors |-> e1]

\* lines 43-76: one iteration of the inner loop, on the table's column map
\* and the error batch
ProcessColumn(table_name, column, overrides, st) ==
    LET sc == create_simple_column(column.name, table_name)
        e0 == st.errors
        e1 == [e0 EXCEPT !.unanonymised_pii =
                  PushIf(IsUnanonymisedPii(column), @, sc)]
        e2 == [e1 EXCEPT !.unknown_data_categories =
                  PushIf(IsUnknownCategory(column), @, sc)]
        e3 == [e2 EXCEPT !.error_transformer_types =
                  PushIf(IsErrorTransformer(column), @, sc)]
        info == [data_category |-> column.data_category,
                 name |-> column.name,
                 transformer |-> transformer(column, overrides)]
        dupe == MapGet(st.columns, column.name)
        e4 == [e3 EXCEPT !.duplicate_columns =
                  IF dupe.some
                  THEN Append(@, create_simple_column(dupe.value.name,
                                                      table_name))
                  ELSE @]
    IN  [columns |-> MapInsert(st.columns, column.name, info), errors |-> e4]

\* an insert that never hands back the policy the table had before
Strategies_insert_forgetting(strats, table_name, cols) ==
    [tables |-> MapInsert(strats, table_name,
                          [kind |-> "Columns", columns |-> cols]),
     old |-> None]

\* an insert that takes a table without columns for a Truncate table
Strategies_insert_truncating(strats, table_name, cols) ==
    [tables |-> MapInsert(strats, table_name,
                          IF cols = EmptyMap THEN [kind |-> "Truncate"]
                          ELSE [kind |-> "Columns", columns |-> cols]),
     old |-> MapGet(strats, table_name)]

\* lines 96-103: Strategies::insert
Strategies_insert(strats, table_name, cols) ==
    [tables |-> MapInsert(strats, table_name,
                          [kind |-> "Columns", columns |-> cols]),
     old |-> MapGet(strats, table_name)]

NotRun == [kind |-> "NotRun"]

RECURSIVE TotalColumns(_)
\* column entries of a document
TotalColumns(doc) ==
    IF doc = <<>> THEN 0 ELSE Len(Head(doc).columns) + TotalColumns(Tail(doc))

CompileIdle ==
    /\ strategies_in_file = <<>>
    /\ transformer_overrides = [allow_potential_pii |-> FALSE,
                                allow_commercially_sensitive |-> FALSE,
                                scramble_blank |-> FALSE]
    /\ columns = EmptyMap
    /\ transformed_strategies = EmptyMap
    /\ errors = ValidationErrors_new
    /\ result = NotRun
    /\ pc = "idle"

ValidateIdle ==
    /\ tables = EmptyMap
    /\ columns_from_db = {}
    /\ db_result = NotRun

StateIdle ==
    /\ position = [kind |-> "Normal"]
    /\ types = EmptyMap
    /\ new_position = [kind |-> "Normal"]
    /\ previous_kind = "Normal"

OverrideIdle ==
    /\ override_input = [data_category |-> "General",
                         transformer |-> [name |-> "Identity", args |-> "None"]]
    /\ override_results = <<>>

\* lines 34-39: the call, with any override flags
InitCompile ==
    /\ strategies_in_file = <<>>
    /\ transformer_overrides \in TransformerOverrides
    /\ columns = EmptyMap
    /\ transformed_strategies = EmptyMap
    /\ errors = ValidationErrors_new
    /\ result = NotRun
    /\ pc = "strategies"
    /\ ValidateIdle
    /\ StateIdle
    /\ OverrideIdle

\* lines 41-42: the outer loop takes the next table entry of the document
NextStrategy(table_name, truncate) ==
    /\ pc = "strategies"
    /\ Len(strategies_in_file) < MaxTables
    /\ strategies_in_file' =
           Append(strategies_in_file,
                  [table_name |-> table_name, truncate |-> truncate,
                   columns |-> <<>>])
    /\ columns' = EmptyMap
    /\ pc' = "columns"
    /\ UNCHANGED <<transformer_overrides, transformed_strategies, errors,
                   result>>
    /\ UNCHANGED validateVars
    /\ UNCHANGED stateVars
    /\ UNCHANGED overrideVars

\* lines 43-76: the inner loop takes the next column of the table entry
NextColumn(column) ==
    /\ pc = "columns"
    /\ TotalColumns(strategies_in_file) < MaxColumns
    /\ LET n == Len(strategies_in_file)
           strategy == strategies_in_file[n]
           st == ProcessColumn(strategy.table_name, column,
                               transformer_overrides,
                               [columns |-> columns, errors |-> errors])
       IN  /\ strategies_in_file' =
                  [strategies_in_file EXCEPT ![n].columns = Append(@, column)]
           /\ columns' = st.columns
           /\ errors' = st.errors
    /\ UNCHANGED <<transformer_overrides, transformed_strategies, result, pc>>
    /\ UNCHANGED validateVars
    /\ UNCHANGED stateVars
    /\ UNCHANGED overrideVars

\* lines 78-82: the table entry has no more columns
EndStrategy ==
    /\ pc = "columns"
    /\ LET strategy == strategies_in_file[Len(strategies_in_file)]
           ins == Strategies_insert(transformed_strategies,
                                    strategy.table_name, columns)
       IN  /\ transformed_strategies' = ins.tables
           /\ errors' = IF ins.old.some
                        THEN [errors EXCEPT !.duplicate_tables =
                                 Append(@, strategy.table_name)]
                        ELSE errors
    /\ pc' = "strategies"
    /\ UNCHANGED <<strategies_in_file, transformer_overrides, columns, result>>
    /\ UNCHANGED validateVars
    /\ UNCHANGED stateVars
    /\ UNCHANGED overrideVars

\* lines 84-89: the document has no more table entries
Return ==
    /\ pc = "strategies"
    /\ result' = IF ValidationErrors_is_empty(errors)
                 THEN [kind |-> "Ok", strategies |-> transformed_strategies]
                 ELSE [kind |-> "Err", errors |-> errors]
    /\ pc' = "done"
    /\ UNCHANGED <<strategies_in_file, transformer_overrides, columns,
                   transformed_strategies, errors>>
    /\ UNCHANGED validateVars
    /\ UNCHANGED stateVars
    /\ UNCHANGED overrideVars

NextCompile ==
    \/ \E t \in TableNames, tr \in BOOLEAN : NextStrategy(t, tr)
    \/ \E c \in ColumnInFile : NextColumn(c)
    \/ EndStrategy
    \/ Return

SpecCompile == InitCompile /\ [][NextCompile]_vars

(***************************************************************************)
(* What a strategy document holds, read off the document itself            *)
(***************************************************************************)
RECURSIVE AllColumns(_)
\* every column entry of a document, in document order, with its table name
AllColumns(doc) ==
    IF doc = <<>> THEN <<>>
    ELSE [j \in 1..Len(Head(doc).columns) |->
             [table_name |-> Head(doc).table_name,
              column |-> Head(doc).columns[j],
              duplicate |-> \E k \in 1..(j - 1) :
                  Head(doc).columns[k].name = Head(doc).columns[j].name]]
         \o AllColumns(Tail(doc))

SimpleColumnsOf(s) ==
    [k \in 1..Len(s) |->
        [table_name |-> s[k].table_name, column_name |-> s[k].column.name]]

\* the last table entry of the document named t, and the last column of
\* that entry named c
LastEntry(doc, t) ==
    CHOOSE i \in 1..Len(doc) :
        /\ doc[i].table_name = t
        /\ \A k \in (i + 1)..Len(doc) : doc[k].table_name # t

LastColumn(cols, c) ==
    CHOOSE j \in 1..Len(cols) :
        /\ cols[j].name = c
        /\ \A k \in (j + 1)..Len(cols) : cols[k].name # c

ColumnNamesOf(cols) == { cols[j].name : j \in 1..Len(cols) }
TableNamesOf(doc) == { doc[i].table_name : i \in 1..Len(doc) }

\* the override rules of the specification, in their priority order
ForcedIdentity(data_category, overrides) ==
    \/ data_category = "PotentialPii" /\ overrides.allow_potential_pii
    \/ data_category = "CommerciallySensitive"
       /\ overrides.allow_commercially_sensitive

FollowsPriorityRules(stored, data_category, declared, overrides) ==
    /\ ForcedIdentity(data_category, overrides) => stored.name = "Identity"
    /\ ( ~ForcedIdentity(data_category, overrides)
         /\ declared.name = "Scramble" /\ overrides.scramble_blank )
          => stored.name = "ScrambleBlank"
    /\ ( ~ForcedIdentity(data_category, overrides)
         /\ ~(declared.name = "Scramble" /\ overrides.scramble_blank) )
          => stored = declared

\* the column map cm holds, for each name, the rules' result for the last
\* column of cols of that name
MapFollowsRules(cm, cols) ==
    /\ DOMAIN cm = ColumnNamesOf(cols)
    /\ \A c \in DOMAIN cm :
          LET col == cols[LastColumn(cols, c)]
          IN  /\ cm[c].name = c
              /\ cm[c].data_category = col.data_category
              /\ FollowsPriorityRules(cm[c].transformer, col.data_category,
                                      col.transformer, transformer_overrides)

(***************************************************************************)
(* C1: for every column entry and every combination of the override flags, *)
(* the transformer from_strategies_in_file stores for the column is the    *)
(* result of the rules in priority order: PotentialPii with                *)
(* allow_potential_pii gives Identity, else CommerciallySensitive with     *)
(* allow_commercially_sensitive gives Identity, else Scramble with         *)
(* scramble_blank gives ScrambleBlank, else the declared transformer.      *)
(***************************************************************************)
C1_StoredTransformerFollowsPriority ==
    /\ pc = "columns" =>
          MapFollowsRules(columns,
                          strategies_in_file[Len(strategies_in_file)].columns)
    /\ pc = "done" =>
          /\ DOMAIN transformed_strategies = TableNamesOf(strategies_in_file)
          /\ \A t \in DOMAIN transformed_strategies :
                MapFollowsRules(
                    transformed_strategies[t].columns,
                    strategies_in_file[LastEntry(strategies_in_file, t)].columns)

\* a category-flagged column declared Scramble, with its category flag and
\* scramble_blank both set, has been stored as Identity
C1_Witness ==
    /\ pc = "done"
    /\ transformer_overrides.scramble_blank
    /\ \E t \in DOMAIN transformed_strategies :
         \E c \in DOMAIN transformed_strategies[t].columns :
            LET e == strategies_in_file[LastEntry(strategies_in_file, t)]
                col == e.columns[LastColumn(e.columns, c)]
            IN  /\ col.transformer.name = "Scramble"
                /\ ForcedIdentity(col.data_category, transformer_overrides)
                /\ transformed_strategies[t].columns[c].transformer.name
                      = "Identity"

StoredColumns(strats) ==
    UNION { { [table_name |-> t, info |-> strats[t].columns[c]] :
                c \in DOMAIN strats[t].columns } : t \in DOMAIN strats }

DeclaredIdentityPii(x) ==
    /\ x.column.data_category \in {"Pii", "PotentialPii"}
    /\ x.column.transformer.name = "Identity"

ResolvedIdentityPii(x) ==
    /\ x.column.data_category \in {"Pii", "PotentialPii"}
    /\ transformer(x.column, transformer_overrides).name = "Identity"

(***************************************************************************)
(* C2 as stated: a column is in the unanonymised-PII bucket exactly when   *)
(* its category is Pii or PotentialPii and its resolved transformer (after *)
(* the override rules) is Identity.                                        *)
(***************************************************************************)
C2_BucketIffResolvedIdentity ==
    pc = "done" =>
        errors.unanonymised_pii =
            SimpleColumnsOf(SelectSeq(AllColumns(strategies_in_file),
                                      ResolvedIdentityPii))

(***************************************************************************)
(* C2 amended: a column is in the unanonymised-PII bucket exactly when its *)
(* category is Pii or PotentialPii and its declared transformer (before    *)
(* the override rules) is Identity, once per such column entry and in      *)
(* document order.                                                         *)
(***************************************************************************)
C2_BucketIffDeclaredIdentity ==
    pc = "done" =>
        errors.unanonymised_pii =
            SimpleColumnsOf(SelectSeq(AllColumns(strategies_in_file),
                                      DeclaredIdentityPii))

\* a document with a column in the bucket and a PotentialPii column that
\* the override resolved to Identity and that is not in the bucket
C2_Witness ==
    /\ pc = "done"
    /\ errors.unanonymised_pii # <<>>
    /\ \E k \in 1..Len(AllColumns(strategies_in_file)) :
          LET x == AllColumns(strategies_in_file)[k]
          IN  /\ ResolvedIdentityPii(x)
              /\ ~DeclaredIdentityPii(x)
              /\ \A n \in 1..Len(errors.unanonymised_pii) :
                    errors.unanonymised_pii[n] #
                        [table_name |-> x.table_name,
                         column_name |-> x.column.name]

(***************************************************************************)
(* C3: in every Policy Set returned as success no Pii column has           *)
(* transformer Identity, and a PotentialPii column has transformer         *)
(* Identity only if allow_potential_pii was set.                           *)
(***************************************************************************)
C3_SuccessHasNoUnanonymisedPii ==
    result.kind = "Ok" =>
        \A x \in StoredColumns(result.strategies) :
            /\ x.info.data_category = "Pii"
                  => x.info.transformer.name # "Identity"
            /\ ( x.info.data_category = "PotentialPii"
                 /\ x.info.transformer.name = "Identity" )
                  => transformer_overrides.allow_potential_pii

\* a success holding a Pii column and a PotentialPii column demoted to
\* Identity
C3_Witness ==
    /\ result.kind = "Ok"
    /\ \E x \in StoredColumns(result.strategies) :
          x.info.data_category = "Pii"
    /\ \E x \in StoredColumns(result.strategies) :
          /\ x.info.data_category = "PotentialPii"
          /\ x.info.transformer.name = "Identity"

(***************************************************************************)
(* C4: a Policy Set returned as success holds no column whose transformer  *)
(* is Error; every column declared with the Error transformer is reported  *)
(* in the error-transformer bucket and the compilation fails.              *)
(***************************************************************************)
C4_ErrorTransformerNeverCompiled ==
    /\ result.kind = "Ok" =>
          \A x \in StoredColumns(result.strategies) :
              x.info.transformer.name # "Error"
    /\ pc = "done" =>
          \A k \in 1..Len(AllColumns(strategies_in_file)) :
              LET x == AllColumns(strategies_in_file)[k]
              IN  x.column.transformer.name = "Error" =>
                    /\ result.kind = "Err"
                    /\ \E n \in 1..Len(result.errors.error_transformer_types) :
                          result.errors.error_transformer_types[n] =
                              [table_name |-> x.table_name,
                               column_name |-> x.column.name]

\* a failed compilation of a document declaring an Error transformer on a
\* column of Unknown category
C4_Witness ==
    /\ pc = "done"
    /\ result.kind = "Err"
    /\ \E k \in 1..Len(AllColumns(strategies_in_file)) :
          /\ AllColumns(strategies_in_file)[k].column.transformer.name = "Error"
          /\ AllColumns(strategies_in_file)[k].column.data_category = "Unknown"

\* the offending instances of a document, bucket by bucket, in document order
IsUnknown(x) == x.column.data_category = "Unknown"
IsDeclaredError(x) == x.column.transformer.name = "Error"
IsDuplicateColumn(x) == x.duplicate

DuplicateTables(doc) ==
    LET later(i) == \E k \in 1..(i - 1) : doc[k].table_name = doc[i].table_name
        dups == SelectSeq([i \in 1..Len(doc) |-> i], later)
    IN  [n \in 1..Len(dups) |-> doc[dups[n]].table_name]

OffendingInstances(doc) ==
    LET all == AllColumns(doc)
    IN  [unanonymised_pii |->
             SimpleColumnsOf(SelectSeq(all, DeclaredIdentityPii)),
         unknown_data_categories |-> SimpleColumnsOf(SelectSeq(all, IsUnknown)),
         error_transformer_types |->
             SimpleColumnsOf(SelectSeq(all, IsDeclaredError)),
         duplicate_columns |->
             SimpleColumnsOf(SelectSeq(all, IsDuplicateColumn)),
         duplicate_tables |-> DuplicateTables(doc)]

NoOffendingInstance(doc) ==
    LET o == OffendingInstances(doc)
    IN  /\ o.unanonymised_pii = <<>>
        /\ o.unknown_data_categories = <<>>
        /\ o.error_transformer_types = <<>>
        /\ o.duplicate_columns = <<>>
        /\ o.duplicate_tables = <<>>

ErrorCount(e) ==
    Len(e.unanonymised_pii) + Len(e.unknown_data_categories)
    + Len(e.error_transformer_types) + Len(e.duplicate_columns)
    + Len(e.duplicate_tables)

(***************************************************************************)
(* C5: from_strategies_in_file never fails fast. Both loops go on whatever *)
(* errors were found; the result is success if and only if the five        *)
(* buckets are empty after the whole document, and otherwise the batch     *)
(* holds every offending instance of the document.                         *)
(***************************************************************************)
C5_NeverFailsFast ==
    /\ ( pc = "columns" /\ TotalColumns(strategies_in_file) < MaxColumns )
          => ENABLED (\E c \in ColumnInFile : NextColumn(c))
    /\ ( pc = "strategies" /\ Len(strategies_in_file) < MaxTables )
          => ENABLED (\E t \in TableNames, tr \in BOOLEAN : NextStrategy(t, tr))
    /\ pc = "done" =>
          /\ DOMAIN transformed_strategies = TableNamesOf(strategies_in_file)
          /\ errors = OffendingInstances(strategies_in_file)
          /\ result.kind = "Ok" <=> NoOffendingInstance(strategies_in_file)
          /\ result.kind = "Ok" <=> ValidationErrors_is_empty(errors)
          /\ result.kind = "Ok" => result.strategies = transformed_strategies
          /\ result.kind = "Err" =>
                result.errors = OffendingInstances(strategies_in_file)

\* a failed compilation whose batch holds instances of two table entries,
\* the later ones found after the first error
C5_Witness ==
    /\ pc = "done"
    /\ result.kind = "Err"
    /\ Len(strategies_in_file) = 2
    /\ result.errors.unknown_data_categories # <<>>
    /\ result.errors.unknown_data_categories[1].table_name
          = strategies_in_file[1].table_name
    /\ result.errors.error_transformer_types # <<>>
    /\ result.errors.duplicate_tables # <<>>

(***************************************************************************)
(* strategies.rs: Strategies::validate_against_db                          *)
(***************************************************************************)
\* lines 17-25: TableStrategy::to_columns; a Truncate table panics
to_columns(table_strategy) ==
    IF table_strategy.kind = "Columns" THEN table_strategy.columns
    ELSE "panic: Not columns!"

\* the derived ordering of SimpleColumn: table_name, then column_name
SimpleColumnLess(a, b) ==
    \/ a.table_name < b.table_name
    \/ a.table_name = b.table_name /\ a.column_name < b.column_name

RECURSIVE InsertSorted(_, _)
InsertSorted(x, s) ==
    IF s = <<>> THEN <<x>>
    ELSE IF SimpleColumnLess(Head(s), x)
         THEN <<Head(s)>> \o InsertSorted(x, Tail(s))
         ELSE <<x>> \o s

\* a sort that leaves the list as collected
Sort_not_done(s) == s

RECURSIVE Sort(_)
\* lines 147-148: Vec::sort
Sort(s) == IF s = <<>> THEN <<>> ELSE InsertSorted(Head(s), Sort(Tail(s)))

\* lines 131-139: a HashSet collected into a Vec, in any iteration order
CollectedOrders(set) ==
    { s \in [1..Cardinality(set) -> set] :
        \A i, j \in 1..Cardinality(set) : i # j => s[i] # s[j] }

DbErrors_is_empty(e) ==
    /\ e.missing_from_strategy_file = <<>>
    /\ e.missing_from_db = <<>>

\* lines 110-119: the tables of the Columns variant
ColumnsPartition(strats) ==
    [t \in { x \in DOMAIN strats : strats[x].kind = "Columns" } |-> strats[t]]

\* lines 121-129
columns_from_strategy_file(strats) ==
    LET cols == ColumnsPartition(strats)
    IN  UNION { { create_simple_column(c, t) : c \in DOMAIN to_columns(cols[t]) }
                : t \in DOMAIN cols }

\* a validation that leaves the live columns of Truncate tables out
validate_against_db_skipping_truncated(strats, from_db) ==
    LET from_file == columns_from_strategy_file(strats)
        live == { x \in from_db :
                    ~( x.table_name \in DOMAIN strats
                       /\ strats[x.table_name].kind = "Truncate" ) }
    IN  { IF DbErrors_is_empty([missing_from_strategy_file |-> a,
                                missing_from_db |-> b])
          THEN [kind |-> "Ok"]
          ELSE [kind |-> "Err",
                errors |-> [missing_from_strategy_file |-> Sort(a),
                            missing_from_db |-> Sort(b)]] :
          a \in CollectedOrders(live \ from_file),
          b \in CollectedOrders(from_file \ live) }

\* lines 106-151: the results validate_against_db can return
validate_against_db(strats, from_db) ==
    LET from_file == columns_from_strategy_file(strats)
    IN  { IF DbErrors_is_empty([missing_from_strategy_file |-> a,
                                missing_from_db |-> b])
          THEN [kind |-> "Ok"]
          ELSE [kind |-> "Err",
                errors |-> [missing_from_strategy_file |-> Sort(a),
                            missing_from_db |-> Sort(b)]] :
          a \in CollectedOrders(from_db \ from_file),
          b \in CollectedOrders(from_file \ from_db) }

\* lines 645-651 (create_column of the tests): the column policy of the sets
\* handed to validate_against_db
create_column(column_name) ==
    [data_category |-> "General", name |-> column_name,
     transformer |-> [name |-> "Identity", args |-> "None"]]

TableStrategy ==
    { [kind |-> "Truncate"] }
    \cup { [kind |-> "Columns",
            columns |-> [c \in cs |-> create_column(c)]] :
            cs \in SUBSET ColumnNames }

PolicySets == UNION { [ts -> TableStrategy] : ts \in SUBSET TableNames }

SimpleColumns ==
    { create_simple_column(c, t) : c \in ColumnNames, t \in TableNames }

InitValidate ==
    /\ tables \in PolicySets
    /\ columns_from_db \in SUBSET SimpleColumns
    /\ db_result = NotRun
    /\ CompileIdle
    /\ StateIdle
    /\ OverrideIdle

Validate ==
    /\ db_result = NotRun
    /\ db_result' \in validate_against_db(tables, columns_from_db)
    /\ UNCHANGED <<tables, columns_from_db>>
    /\ UNCHANGED compileVars
    /\ UNCHANGED stateVars
    /\ UNCHANGED overrideVars

NextValidate == Validate

SpecValidate == InitValidate /\ [][NextValidate]_vars

\* the policy columns P of the column-bearing tables
PolicyColumns ==
    { x \in SimpleColumns :
        /\ x.table_name \in DOMAIN tables
        /\ tables[x.table_name].kind = "Columns"
        /\ x.column_name \in DOMAIN tables[x.table_name].columns }

\* s lists the set S in ascending order, each element once
IsSortedListOf(s, S) ==
    /\ { s[i] : i \in 1..Len(s) } = S
    /\ \A i \in 1..(Len(s) - 1) : SimpleColumnLess(s[i], s[i + 1])

(***************************************************************************)
(* C6: validate_against_db returns success if and only if the policy       *)
(* columns P of the column-bearing tables equal the live columns L;        *)
(* otherwise missing_from_strategy_file is the sorted list of L minus P    *)
(* and missing_from_db the sorted list of P minus L, each element once.    *)
(***************************************************************************)
C6_SchemaDiff ==
    db_result # NotRun =>
        /\ db_result.kind = "Ok" <=> PolicyColumns = columns_from_db
        /\ db_result.kind = "Err" =>
              /\ IsSortedListOf(db_result.errors.missing_from_strategy_file,
                                columns_from_db \ PolicyColumns)
              /\ IsSortedListOf(db_result.errors.missing_from_db,
                                PolicyColumns \ columns_from_db)

\* a failed validation with several columns missing on each side
C6_Witness ==
    /\ db_result # NotRun
    /\ db_result.kind = "Err"
    /\ Len(db_result.errors.missing_from_strategy_file) = 2
    /\ Len(db_result.errors.missing_from_db) = 2

(***************************************************************************)
(* state.rs: Types, Position, State                                        *)
(***************************************************************************)
Column == [name : ColumnNames, data_type : DeclaredTypes]

ColumnLists == UNION { [1..n -> Column] : n \in 0..MaxTypes }

Position ==
    { [kind |-> "Normal"] }
    \cup { [kind |-> "InCopy",
            current_table |-> [table_name |-> t, transforms |-> tr]] :
            t \in TableNames, tr \in {"None", "Some"} }
    \cup { [kind |-> "InCreateTable", table_name |-> t, types |-> cl] :
            t \in TableNames, cl \in ColumnLists }

\* an insert that drops the tables committed before
Types_insert_clearing(registry, table_name, thing) ==
    [x \in {table_name} |-> thing]

\* lines 15-17: Types::insert
Types_insert(registry, table_name, thing) ==
    MapInsert(registry, table_name, thing)

\* lines 19-24: Types::lookup
Types_lookup(registry, table_name, column_name) ==
    IF table_name \in DOMAIN registry
    THEN IF column_name \in DOMAIN registry[table_name]
         THEN Some(registry[table_name][column_name])
         ELSE None
    ELSE None

RECURSIVE CollectTypes_first_wins(_, _)
\* a collect that keeps the first column of a name
CollectTypes_first_wins(table_types, acc) ==
    IF table_types = <<>> THEN acc
    ELSE CollectTypes_first_wins(
             Tail(table_types),
             IF Head(table_types).name \in DOMAIN acc THEN acc
             ELSE MapInsert(acc, Head(table_types).name,
                            Head(table_types).data_type))

RECURSIVE CollectTypes(_, _)
\* lines 63-66: the (name, data_type) pairs collected into a HashMap, in the
\* order of the Vec
CollectTypes(table_types, acc) ==
    IF table_types = <<>> THEN acc
    ELSE CollectTypes(Tail(table_types),
                      MapInsert(acc, Head(table_types).name,
                                Head(table_types).data_type))

\* an update that refuses the moves between InCreateTable and InCopy
update_position_refusing(state, np) ==
    IF \/ state.position.kind = "InCreateTable" /\ np.kind = "InCopy"
       \/ state.position.kind = "InCopy" /\ np.kind = "InCreateTable"
    THEN state
    ELSE [position |-> np,
          types |-> IF state.position.kind = "InCreateTable"
                       /\ np.kind = "Normal"
                    THEN Types_insert(state.types, state.position.table_name,
                                      CollectTypes(state.position.types,
                                                   EmptyMap))
                    ELSE state.types]

\* an update that commits whenever a table declaration is left
update_position_committing_on_exit(state, np) ==
    [position |-> np,
     types |-> IF state.position.kind = "InCreateTable"
                  /\ np.kind # "InCreateTable"
               THEN Types_insert(state.types, state.position.table_name,
                                 CollectTypes(state.position.types, EmptyMap))
               ELSE state.types]

\* lines 52-71: State::update_position
update_position(state, np) ==
    [position |-> np,
     types |-> IF state.position.kind = "InCreateTable" /\ np.kind = "Normal"
               THEN Types_insert(state.types, state.position.table_name,
                                 CollectTypes(state.position.types, EmptyMap))
               ELSE state.types]

\* lines 45-50: State::new
Init ==
    /\ position = [kind |-> "Normal"]
    /\ types = EmptyMap
    /\ new_position = [kind |-> "Normal"]
    /\ previous_kind = "Normal"
    /\ CompileIdle
    /\ ValidateIdle
    /\ OverrideIdle

UpdatePosition(np) ==
    /\ LET after == update_position([position |-> position, types |-> types],
                                    np)
       IN  /\ position' = after.position
           /\ types' = after.types
    /\ new_position' = np
    /\ previous_kind' = position.kind
    /\ UNCHANGED compileVars
    /\ UNCHANGED validateVars
    /\ UNCHANGED overrideVars

Next == \E np \in Position : UpdatePosition(np)

Spec == Init /\ [][Next]_vars

\* the declared type of the last column of table_types named c
LastDeclaredType(table_types, c) ==
    table_types[CHOOSE j \in 1..Len(table_types) :
                    /\ table_types[j].name = c
                    /\ \A k \in (j + 1)..Len(table_types) :
                          table_types[k].name # c].data_type

CommitStep ==
    position.kind = "InCreateTable" /\ position'.kind = "Normal"

(***************************************************************************)
(* C7 as stated: when update_position moves from InCreateTable to Normal,  *)
(* the registry afterwards maps table_name to the name to declared-type    *)
(* map of the accumulated columns, Types::lookup(table_name, c) returns    *)
(* the declared type of every accumulated column c, and the position is    *)
(* Normal.                                                                 *)
(***************************************************************************)
C7_LookupReturnsEveryDeclaredType ==
    [][CommitStep =>
          /\ position' = [kind |-> "Normal"]
          /\ \A i \in 1..Len(position.types) :
                Types_lookup(types', position.table_name,
                             position.types[i].name)
                  = Some(position.types[i].data_type)]_vars

(***************************************************************************)
(* C7 amended: when update_position moves from InCreateTable to Normal,    *)
(* the registry afterwards maps table_name to exactly the accumulated      *)
(* column names, Types::lookup(table_name, c) returns for each of them the *)
(* declared type of the last accumulated column named c, and the position  *)
(* is Normal.                                                              *)
(***************************************************************************)
C7_LookupReturnsLastDeclaredType ==
    [][CommitStep =>
          /\ position' = [kind |-> "Normal"]
          /\ position.table_name \in DOMAIN types'
          /\ DOMAIN types'[position.table_name]
                = ColumnNamesOf(position.types)
          /\ \A c \in ColumnNames :
                Types_lookup(types', position.table_name, c)
                  = IF c \in ColumnNamesOf(position.types)
                    THEN Some(LastDeclaredType(position.types, c))
                    ELSE None]_vars

\* the declaration of table 1 with columns (1, bigint), (2, date) has been
\* committed
C7_Witness ==
    /\ previous_kind = "InCreateTable"
    /\ position = [kind |-> "Normal"]
    /\ Types_lookup(types, 1, 1) = Some("bigint")
    /\ Types_lookup(types, 1, 2) = Some("date")

LegalEdges ==
    { <<"Normal", "InCreateTable">>, <<"InCreateTable", "InCreateTable">>,
      <<"InCreateTable", "Normal">>, <<"Normal", "InCopy">>,
      <<"InCopy", "InCopy">>, <<"InCopy", "Normal">> }

(***************************************************************************)
(* C8 as stated: over any sequence of update_position calls from           *)
(* State::new the position changes only along the legal edges, never       *)
(* directly from InCreateTable to InCopy or from InCopy to InCreateTable.  *)
(***************************************************************************)
C8_OnlyLegalEdges ==
    [][position' # position =>
          <<position.kind, position'.kind>> \in LegalEdges]_vars

(***************************************************************************)
(* C8 amended: over any sequence of update_position calls from State::new  *)
(* the position after a call is the new position handed to that call,      *)
(* whatever the position before; update_position refuses no edge, the      *)
(* moves between InCreateTable and InCopy included.                        *)
(***************************************************************************)
C8_PositionIsNewPosition ==
    [][position' = new_position']_vars

\* a row block was entered directly from a table declaration
C8_Witness ==
    /\ previous_kind = "InCreateTable"
    /\ position.kind = "InCopy"
    /\ position = new_position

(***************************************************************************)
(* C9: update_position leaves the Type Registry unchanged for every pair   *)
(* of current and new position other than InCreateTable to Normal.         *)
(***************************************************************************)
C9_OnlyCommitChangesRegistry ==
    [][~CommitStep => types' = types]_vars

\* a table declaration was left for another table declaration with nothing
\* committed
C9_Witness ==
    /\ previous_kind = "InCreateTable"
    /\ position.kind = "InCreateTable"
    /\ types = EmptyMap

(***************************************************************************)
(* C10 as stated: once Types::lookup(t, c) returns a declared type it      *)
(* returns that type after every later update_position call, also when     *)
(* table t is declared a second time.                                      *)
(***************************************************************************)
C10_LookupNeverChanges ==
    [][\A t \in TableNames, c \in ColumnNames :
          Types_lookup(types, t, c).some =>
              Types_lookup(types', t, c) = Types_lookup(types, t, c)]_vars

(***************************************************************************)
(* C10 amended: no table is ever removed from the Type Registry, and once  *)
(* Types::lookup(t, c) returns a declared type it returns that type after  *)
(* every later update_position call except the commit of a later           *)
(* declaration of the same table t, which replaces the column map of t.    *)
(***************************************************************************)
C10_LookupChangesOnlyOnRedeclaration ==
    [][/\ DOMAIN types \subseteq DOMAIN types'
       /\ \A t \in TableNames, c \in ColumnNames :
             Types_lookup(types, t, c).some =>
                 \/ Types_lookup(types', t, c) = Types_lookup(types, t, c)
                 \/ CommitStep /\ position.table_name = t]_vars

\* table 1 was committed and table 2 after it; the entry of table 1 is kept
C10_Witness ==
    /\ previous_kind = "InCreateTable"
    /\ position = [kind |-> "Normal"]
    /\ Types_lookup(types, 1, 1) = Some("bigint")
    /\ Types_lookup(types, 2, 1) = Some("date")

\* no column entry of the document is at fault by itself
OnlyDuplicateFaults(doc) ==
    \A k \in 1..Len(AllColumns(doc)) :
        LET x == AllColumns(doc)[k]
        IN  /\ ~DeclaredIdentityPii(x)
            /\ ~IsUnknown(x)
            /\ ~IsDeclaredError(x)

(***************************************************************************)
(* C11: every table entry whose table name occurred earlier in the         *)
(* document adds that name once to duplicate_tables, every column whose    *)
(* name occurred earlier within the same table entry adds (table, column)  *)
(* once to duplicate_columns, and a document whose only faults are such    *)
(* duplicates has the unanonymised-PII, unknown-category and               *)
(* Error-transformer buckets empty.                                        *)
(***************************************************************************)
C11_DuplicatesReportedOnce ==
    pc = "done" =>
        /\ errors.duplicate_tables = DuplicateTables(strategies_in_file)
        /\ errors.duplicate_columns =
              SimpleColumnsOf(SelectSeq(AllColumns(strategies_in_file),
                                        IsDuplicateColumn))
        /\ OnlyDuplicateFaults(strategies_in_file) =>
              /\ errors.unanonymised_pii = <<>>
              /\ errors.unknown_data_categories = <<>>
              /\ errors.error_transformer_types = <<>>

\* table 1 declared twice, its first entry declaring column 1 twice, and
\* nothing else at fault
C11_Witness ==
    /\ pc = "done"
    /\ result.kind = "Err"
    /\ result.errors.duplicate_tables = <<1>>
    /\ result.errors.duplicate_columns =
          <<[table_name |-> 1, column_name |-> 1]>>
    /\ result.errors.unanonymised_pii = <<>>
    /\ result.errors.unknown_data_categories = <<>>
    /\ result.errors.error_transformer_types = <<>>

(***************************************************************************)
(* C12: whenever allow_potential_pii is set, from_strategies_in_file adds  *)
(* no PotentialPii column to the unanonymised-PII bucket, whatever         *)
(* transformer the column declares.                                        *)
(***************************************************************************)
C12_DemotedPotentialPiiNotReported ==
    transformer_overrides.allow_potential_pii =>
        \A k \in 1..Len(AllColumns(strategies_in_file)) :
            LET x == AllColumns(strategies_in_file)[k]
            IN  x.column.data_category = "PotentialPii" =>
                  \A n \in 1..Len(errors.unanonymised_pii) :
                      errors.unanonymised_pii[n] #
                          [table_name |-> x.table_name,
                           column_name |-> x.column.name]

\* lines 92-94: Strategies::for_table
for_table(strats, table_name) == MapGet(strats, table_name)

(***************************************************************************)
(* C15: from_strategies_in_file gives every table of the compiled Policy   *)
(* Set the Columns policy; no table entry, one with the truncate flag set  *)
(* included, is compiled to Truncate, so for_table never returns Truncate  *)
(* for a compiled set.                                                     *)
(***************************************************************************)
C15_CompiledTablesAreColumns ==
    /\ \A t \in TableNames :
          for_table(transformed_strategies, t) # Some([kind |-> "Truncate"])
    /\ \A t \in DOMAIN transformed_strategies :
          transformed_strategies[t].kind = "Columns"
    /\ result.kind = "Ok" =>
          \A i \in 1..Len(strategies_in_file) :
              LET found == for_table(result.strategies,
                                     strategies_in_file[i].table_name)
              IN  found.some /\ found.value.kind = "Columns"

\* a success for a document with a table entry whose truncate flag is set
\* and that declares no column
C15_Witness ==
    /\ result.kind = "Ok"
    /\ \E i \in 1..Len(strategies_in_file) :
          /\ strategies_in_file[i].truncate
          /\ strategies_in_file[i].columns = <<>>
          /\ for_table(result.strategies, strategies_in_file[i].table_name)
                = Some([kind |-> "Columns", columns |-> EmptyMap])

TruncateTables == { t \in DOMAIN tables : tables[t].kind = "Truncate" }

\* the policy set without table t
WithoutTable(strats, t) == [x \in (DOMAIN strats) \ {t} |-> strats[x]]

Elements(s) == { s[i] : i \in 1..Len(s) }

(***************************************************************************)
(* C14: validate_against_db takes no column of a Truncate table T into the *)
(* policy columns: every live column (T, c) appears in                     *)
(* missing_from_strategy_file and the validation fails, no column of T is  *)
(* reported missing from the database, and a live schema with no column of *)
(* T gets the result it would get without T in the Policy Set.             *)
(***************************************************************************)
C14_TruncateTableHasNoPolicyColumns ==
    db_result # NotRun =>
        \A t \in TruncateTables :
            LET live == { x \in columns_from_db : x.table_name = t }
            IN  /\ live # {} =>
                      /\ db_result.kind = "Err"
                      /\ live \subseteq
                            Elements(db_result.errors.missing_from_strategy_file)
                /\ db_result.kind = "Err" =>
                      \A x \in Elements(db_result.errors.missing_from_db) :
                          x.table_name # t
                /\ live = {} =>
                      db_result \in validate_against_db(
                                        WithoutTable(tables, t), columns_from_db)

\* table 1 is a Truncate table with two live columns, both reported, and
\* table 2 a Columns table that matches the live schema
C14_Witness ==
    /\ db_result # NotRun
    /\ db_result.kind = "Err"
    /\ DOMAIN tables = {1, 2}
    /\ tables[1].kind = "Truncate"
    /\ tables[2].kind = "Columns"
    /\ db_result.errors.missing_from_strategy_file =
          <<[table_name |-> 1, column_name |-> 1],
            [table_name |-> 1, column_name |-> 2]>>
    /\ db_result.errors.missing_from_db = <<>>

(***************************************************************************)
(* strategies.rs: apply_transformer_overrides applied to its own result    *)
(***************************************************************************)
InitOverrides ==
    /\ transformer_overrides \in TransformerOverrides
    /\ override_input \in [data_category : DataCategory,
                            transformer : Transformer]
    /\ override_results = <<>>
    /\ strategies_in_file = <<>>
    /\ columns = EmptyMap
    /\ transformed_strategies = EmptyMap
    /\ errors = ValidationErrors_new
    /\ result = NotRun
    /\ pc = "idle"
    /\ ValidateIdle
    /\ StateIdle

\* lines 183-207: one more application, to the declared transformer first
\* and to the last result afterwards, with the same category and flags
ApplyOverrides ==
    /\ Len(override_results) < MaxApplications
    /\ LET arg == IF override_results = <<>> THEN override_input.transformer
                  ELSE override_results[Len(override_results)]
       IN  override_results' =
               Append(override_results,
                      apply_transformer_overrides(override_input.data_category,
                                                  transformer_overrides, arg))
    /\ UNCHANGED override_input
    /\ UNCHANGED compileVars
    /\ UNCHANGED validateVars
    /\ UNCHANGED stateVars

NextOverrides == ApplyOverrides

SpecOverrides == InitOverrides /\ [][NextOverrides]_vars

(***************************************************************************)
(* C13: override resolution is idempotent: for every data category,        *)
(* declared transformer and combination of override flags, applying        *)
(* apply_transformer_overrides with the same category and flags to its own *)
(* result returns that result unchanged.                                   *)
(***************************************************************************)
C13_OverridesIdempotent ==
    \A i \in 2..Len(override_results) :
        override_results[i] = override_results[i - 1]

\* a declared Scramble with arguments was replaced by ScrambleBlank and the
\* rules were applied to that result
C13_Witness ==
    /\ Len(override_results) >= 2
    /\ override_input.transformer = [name |-> "Scramble", args |-> "Some"]
    /\ override_results[1] = [name |-> "ScrambleBlank", args |-> "None"]
    /\ override_results[2] = override_results[1]

====
